---- MODULE Spec2Model ----
(***************************************************************************)
(* A model of cfourier.cc: the direct transforms dft/idft, the iterative   *)
(* radix-2 transforms fft/ifft with their bit-reversal permutation, and    *)
(* the staged-dispatch transform of class Fourier on an OpenCL queue.      *)
(*                                                                         *)
(* Complex numbers are exact: an element of Z[1/2][w], w a primitive root  *)
(* of unity of order M = 2^MaxPower, so that every twiddle factor the      *)
(* program forms for a power-of-two length up to M is a power of w.        *)
(* Floating-point rounding is not modelled.                                *)
(***************************************************************************)
EXTENDS Integers, Sequences, FiniteSets, TLC

\* Largest log2 of a signal length.
MaxPower == 3
\* Largest number of non-zero samples of a sparse input signal.
MaxNonZero == 1
\* Largest log2 of max in a direct call of reverse_bits.
MaxRevPower == 8
\* Width of size_t.
WordBits == 64

(***************************************************************************)
(* Exact complex arithmetic.                                               *)
(***************************************************************************)
M == 2^MaxPower
D == IF M >= 2 THEN M \div 2 ELSE 1
Idx == 0..(D - 1)

RECURSIVE SumTo(_, _)
SumTo(f, n) == IF n = 0 THEN 0 ELSE f[n - 1] + SumTo(f, n - 1)

RECURSIVE Log2(_)
Log2(n) == IF n <= 1 THEN 0 ELSE 1 + Log2(n \div 2)

IsPow2(n) == n >= 1 /\ 2^Log2(n) = n

RECURSIVE Norm(_, _)
Norm(c, e) ==
    IF e > 0 /\ \A t \in Idx : c[t] % 2 = 0
    THEN Norm([t \in Idx |-> c[t] \div 2], e - 1)
    ELSE [c |-> c, e |-> e]

\* The complex number (Float) k, k an integer.
Real(k) == [c |-> [t \in Idx |-> IF t = 0 THEN k ELSE 0], e |-> 0]
Zero == Real(0)
One == Real(1)
\* (Float) 0.5
Half == [c |-> [t \in Idx |-> IF t = 0 THEN 1 ELSE 0], e |-> 1]

\* w^k
Root(k) ==
    LET r == k % M
    IN  [c |-> [t \in Idx |-> IF r < D /\ t = r THEN 1
                              ELSE IF r >= D /\ t = r - D THEN -1
                              ELSE 0],
         e |-> 0]

\* static const Complex i(0, 1)
ImagI == Root(M \div 4)

CAdd(a, b) ==
    LET e  == IF a.e >= b.e THEN a.e ELSE b.e
        sa == 2^(e - a.e)
        sb == 2^(e - b.e)
    IN  Norm([t \in Idx |-> a.c[t] * sa + b.c[t] * sb], e)

CNeg(a) == [c |-> [t \in Idx |-> -a.c[t]], e |-> a.e]

CSub(a, b) == CAdd(a, CNeg(b))

\* w^j times the coefficients c: w^D = -1.
Rot(c, j) == [t \in Idx |-> IF t >= j THEN c[t - j] ELSE -c[t - j + D]]

\* The sum over j..D-1 of ac[j] * w^j * bc.
RECURSIVE MulFrom(_, _, _)
MulFrom(ac, bc, j) ==
    IF j = D THEN [t \in Idx |-> 0]
    ELSE IF ac[j] = 0 THEN MulFrom(ac, bc, j + 1)
    ELSE LET r == Rot(bc, j)
             rest == MulFrom(ac, bc, j + 1)
         IN  [t \in Idx |-> ac[j] * r[t] + rest[t]]

\* Complex product.
CMul(a, b) == Norm(MulFrom(a.c, b.c, 0), a.e + b.e)

\* std::conj: conj(w^t) = w^(-t) = -w^(D-t) for 0 < t < D.
Conj(a) == [c |-> [t \in Idx |-> IF t = 0 THEN a.c[0] ELSE -a.c[D - t]], e |-> a.e]

\* std::real and std::imag, as complex numbers with no imaginary part.
Re(a) == CMul(Half, CAdd(a, Conj(a)))
Im(a) == CMul(CNeg(ImagI), CMul(Half, CSub(a, Conj(a))))

\* x / (Float) n for n a power of two.
CDivPow2(a, n) == Norm(a.c, a.e + Log2(n))

\* exp(2*pi*i*num/den), den a power of two dividing M.
Cis(num, den) == Root(num * (M \div den))

(***************************************************************************)
(* Arrays are functions on 0..N-1.                                         *)
(***************************************************************************)
Size(a) == Cardinality(DOMAIN a)

RECURSIVE CSumTo(_, _)
CSumTo(f, n) == IF n = 0 THEN Zero ELSE CAdd(CSumTo(f, n - 1), f[n - 1])

\* Signal operator-(a, b)
SignalSub(a, b) == [j \in DOMAIN a |-> CSub(a[j], b[j])]

\* dot(Complex, Complex)
DotC(a, b) == CMul(a, Conj(b))

\* dot(Signal, Signal)
Dot(a, b) == CSumTo([j \in DOMAIN a |-> DotC(a[j], b[j])], Size(a))

\* error(a, b) squared: real(dot(e, e)) / e.size(); the size is a power of two.
ErrorSq(a, b) ==
    LET e == SignalSub(a, b)
    IN  CDivPow2(Re(Dot(e, e)), Size(e))

\* test_residue's comparison residue < eps: the exact residue is below eps
\* when it is zero; a non-zero exact residue is not compared.
ResidueIsZero(a, b) == ErrorSq(a, b) = Zero

(***************************************************************************)
(* reverse_bits                                                            *)
(***************************************************************************)
Bits == 0..(WordBits - 1)

\* A size_t as its bits; n is below 2^30.
ToWord(n) == [b \in Bits |-> IF b < 30 THEN (n \div 2^b) % 2 ELSE 0]

\* The value of a word whose bits from 30 up are clear.
FromWord(w) == SumTo([b \in 0..29 |-> w[b] * 2^b], 30)

Shl(w) == [b \in Bits |-> IF b = 0 THEN 0 ELSE w[b - 1]]
Shr(w) == [b \in Bits |-> IF b = WordBits - 1 THEN 0 ELSE w[b + 1]]

\* The loop's state on entry: result = 0, i = 1.
RBEntry(n, max) ==
    [n |-> ToWord(n), max |-> ToWord(max), i |-> ToWord(1), result |-> ToWord(0)]

\* The loop condition i != max.
RBCond(st) == st.i # st.max

\* The iteration without n >>= 1: every bit of the result is bit 0 of n.
RBBodyKeepN(st) ==
    [st EXCEPT !.result = [Shl(st.result) EXCEPT ![0] = st.n[0]],
               !.i = Shl(st.i)]

\* One iteration: result <<= 1; result |= (n & 1); n >>= 1; then i <<= 1.
RBBody(st) ==
    [st EXCEPT !.result = [Shl(st.result) EXCEPT ![0] = st.n[0]],
               !.n = Shr(st.n),
               !.i = Shl(st.i)]

\* The loop run to its end. A state the body maps to itself while the
\* condition holds is never left: the call does not return.
RECURSIVE RBRun(_)
RBRun(st) ==
    IF ~RBCond(st) THEN [returns |-> TRUE, value |-> FromWord(st.result)]
    ELSE LET next == RBBody(st)
         IN  IF next = st THEN [returns |-> FALSE, value |-> 0] ELSE RBRun(next)

reverse_bits(n, max) == RBRun(RBEntry(n, max))

(***************************************************************************)
(* The direct transforms and the stages of the iterative transforms.       *)
(***************************************************************************)
\* dft: result[k] = sum over n of signal[n]*exp(-i*2*pi*k*n/N)
dft(signal) ==
    LET N == Size(signal)
    IN  [k \in 0..(N - 1) |->
            CSumTo([n \in 0..(N - 1) |-> CMul(signal[n], Cis(-(k * n), N))], N)]

\* idft: result[n] = (sum over k of spectrum[k]*exp(i*2*pi*k*n/N)) / N
idft(spectrum) ==
    LET N == Size(spectrum)
    IN  [n \in 0..(N - 1) |->
            CDivPow2(CSumTo([k \in 0..(N - 1) |->
                                CMul(spectrum[k], Cis(k * n, N))], N), N)]

\* W with the sign of the exponent lost.
WPositive(k, N) == Cis(k, N)

W(k, N) == Cis(-k, N)

\* Q with the forward transform's sign.
QNegative(n, N) == Cis(-n, N)

Q(n, N) == Cis(n, N)

\* The reverse_bits calls of the permutation loop for (i = 0; i != N; ++i).
Permutation(N) == [j \in 0..(N - 1) |-> reverse_bits(j, N)]

\* Whether every one of them returns.
PermuteReturns(perm) == \A j \in DOMAIN perm : perm[j].returns

\* dst[i] = src[reverse_bits(i, N)] for every i
Permute(src, perm) == [j \in DOMAIN perm |-> src[perm[j].value]]

\* fft_init(dst, src, N)
fft_init(src, N) == Permute(src, Permutation(N))

\* The iteration with the first output's twiddle used for the second output too.
FftPairSameTwiddle(y, base, S, i) ==
    LET sample1 == i
        sample2 == i + S \div 2
        even == y[base + sample1]
        odd == y[base + sample2]
        y1 == [y EXCEPT ![base + sample1] = CAdd(even, CMul(W(sample1, S), odd))]
    IN  [y1 EXCEPT ![base + sample2] = CAdd(even, CMul(W(sample1, S), odd))]

\* The iteration with even loaded again after the first store.
FftPairEvenReloaded(y, base, S, i) ==
    LET sample1 == i
        sample2 == i + S \div 2
        odd == y[base + sample2]
        y1 == [y EXCEPT ![base + sample1] = CAdd(y[base + sample1], CMul(W(sample1, S), odd))]
    IN  [y1 EXCEPT ![base + sample2] = CAdd(y1[base + sample1], CMul(W(sample2, S), odd))]

\* The two stores of one iteration of fft_step_spectrum's loop, on the block at base.
FftPair(y, base, S, i) ==
    LET sample1 == i
        sample2 == i + S \div 2
        even == y[base + sample1]
        odd == y[base + sample2]
        y1 == [y EXCEPT ![base + sample1] = CAdd(even, CMul(W(sample1, S), odd))]
    IN  [y1 EXCEPT ![base + sample2] = CAdd(even, CMul(W(sample2, S), odd))]

RECURSIVE FftSpectrumFrom(_, _, _, _)
FftSpectrumFrom(y, base, S, i) ==
    IF i = S \div 2 THEN y
    ELSE FftSpectrumFrom(FftPair(y, base, S, i), base, S, i + 1)

\* fft_step_spectrum(&spectrum[base], S), in place.
fft_step_spectrum(y, base, S) == FftSpectrumFrom(y, base, S, 0)

RECURSIVE FftStepFrom(_, _, _, _)
FftStepFrom(y, T, S, transform) ==
    IF transform = T THEN y
    ELSE FftStepFrom(fft_step_spectrum(y, transform * S, S), T, S, transform + 1)

\* fft_step(spectrum, transform_count, sample_count), in place.
fft_step(y, T, S) == FftStepFrom(y, T, S, 0)

\* The two stores of one iteration of ifft_step's loop.
IfftPair(y, base, S, i) ==
    LET sample1 == i
        sample2 == i + S \div 2
        even == y[base + sample1]
        odd == y[base + sample2]
        y1 == [y EXCEPT ![base + sample1] =
                 CMul(Half, CAdd(even, CMul(Q(sample1, S), odd)))]
    IN  [y1 EXCEPT ![base + sample2] =
           CMul(Half, CAdd(even, CMul(Q(sample2, S), odd)))]

RECURSIVE IfftSpectrumFrom(_, _, _, _)
IfftSpectrumFrom(y, base, S, i) ==
    IF i = S \div 2 THEN y
    ELSE IfftSpectrumFrom(IfftPair(y, base, S, i), base, S, i + 1)

\* ifft_step(&spectrum[base], S), in place.
ifft_step(y, base, S) == IfftSpectrumFrom(y, base, S, 0)

RECURSIVE IfftStageFrom(_, _, _, _)
IfftStageFrom(y, T, S, transform) ==
    IF transform = T THEN y
    ELSE IfftStageFrom(ifft_step(y, transform * S, S), T, S, transform + 1)

\* The for loop over the transforms of one stage in ifft.
ifft_stage(y, T, S) == IfftStageFrom(y, T, S, 0)

\* The element accesses of one iteration of fft_step_spectrum's (and
\* ifft_step's) loop on the block at base, in program order: the loads of
\* even and odd, then the two stores.
PairAccesses(base, S, i) ==
    LET sample1 == i
        sample2 == i + S \div 2
    IN  << [kind |-> "read", index |-> base + sample1],
           [kind |-> "read", index |-> base + sample2],
           [kind |-> "write", index |-> base + sample1],
           [kind |-> "write", index |-> base + sample2] >>

RECURSIVE SpectrumAccessesFrom(_, _, _)
SpectrumAccessesFrom(base, S, i) ==
    IF i = S \div 2 THEN << >>
    ELSE PairAccesses(base, S, i) \o SpectrumAccessesFrom(base, S, i + 1)

\* The accesses of the stage's loop over its transform_count blocks.
RECURSIVE StepAccessesFrom(_, _, _)
StepAccessesFrom(T, S, transform) ==
    IF transform = T THEN << >>
    ELSE SpectrumAccessesFrom(transform * S, S, 0) \o StepAccessesFrom(T, S, transform + 1)

StepAccesses(T, S) == StepAccessesFrom(T, S, 0)

(***************************************************************************)
(* Test inputs.                                                            *)
(***************************************************************************)
NonZeroSamples == {One, ImagI}

\* Signal(N, 1)
Ones(N) == [j \in 0..(N - 1) |-> One]

\* Signal{7,6,5,4,3,2,i,0}
Literal8 ==
    [j \in 0..7 |-> IF j = 6 THEN ImagI ELSE IF j = 7 THEN Zero ELSE Real(7 - j)]

SparseSignals(N, k) ==
    UNION { { [j \in 0..(N - 1) |-> IF j \in P THEN f[j] ELSE Zero] :
                f \in [P -> NonZeroSamples] } :
            P \in { P0 \in SUBSET (0..(N - 1)) : Cardinality(P0) <= k } }

\* The signals of length N a test is run on.
Signals(N, k) ==
    IF IsPow2(N)
    THEN SparseSignals(N, k) \cup {Ones(N)} \cup (IF N = 8 THEN {Literal8} ELSE {})
    ELSE {Ones(N)}

\* The signals of sample_count() samples a test of Fourier is run on: the zero
\* signal, the impulses, Signal(N, 1) and main's literal.
ParSignals(N) ==
    SparseSignals(N, 1) \cup {Ones(N)} \cup (IF N = 8 THEN {Literal8} ELSE {})

Lengths == 0..M

(***************************************************************************)
(* The program's state.                                                    *)
(***************************************************************************)
VARIABLES
    pc,               \* where the program is
    test,             \* the property main is evaluating
    test_signal,      \* its argument
    fn,               \* the transform being run: "fft", "ifft" or "none"
    arg,              \* the transform's argument
    result,           \* the transform's local result
    transform_count,  \* the transform's local transform_count
    sample_count,     \* the transform's local sample_count
    stages,           \* the <<transform_count, sample_count>> of the stages run so far
    last_stage,       \* the latest stage: the array before it and its accesses in order
    ret,              \* the value the transform returned
    pass,             \* what the test printed: "PASS", "FAIL" or "none"
    rb,               \* reverse_bits called by a test: the loop's state
    rb_args,          \* its arguments <<n, max>>
    rb_iters,         \* the iterations its loop has run
    rb_ret,           \* the value it returned
    m_sample_power,   \* Fourier::m_sample_power
    ctor,             \* the backend call Fourier's constructor is at
    mem,              \* the device buffers X, Y1, Y2: [def, data]
    kargs,            \* the arguments bound to the kernels fft_init and fft_step
    cl_queue,         \* m_queue: the commands enqueued and not yet executed
    stale,            \* the buffers whose contents an earlier operation left
    y_mem,            \* Fourier::fft's local y
    y_alt,            \* Fourier::fft's local y_
    B,                \* Fourier::fft's local B, Fourier::step's parameter B
    kernel,           \* the kernel init() or step() is dispatching
    cur_args,         \* the parameters of that init() or step() call
    argi,             \* the set_arg call it is at
    y_buffer,         \* the host vector store() reads into: [def, data]
    spectrum,         \* the caller's array convert() fills: [def, data]
    oplog,            \* the backend calls of the operation under way, in order
    executed,         \* the commands the device has executed for it, in order
    stdout            \* the lines printed before an abort

seq_vars == <<test, test_signal, fn, arg, result, transform_count, sample_count,
              stages, last_stage, ret, pass>>
rb_vars == <<rb, rb_args, rb_iters, rb_ret>>
seq_locals == <<fn, arg, result, transform_count, sample_count, stages, last_stage, ret>>
dev_vars == <<mem, kargs, cl_queue, executed, stale>>
host_vars == <<y_mem, y_alt, B, kernel, cur_args, argi, y_buffer, spectrum>>
par_vars == <<m_sample_power, ctor, dev_vars, host_vars, oplog, stdout>>
vars == <<pc, seq_vars, rb_vars, par_vars>>

Empty == << >>
NoStage == [before |-> Empty, accesses |-> << >>]
NoRB == RBEntry(0, 0)

SeqIdle ==
    /\ test = "none"
    /\ test_signal = Empty
    /\ fn = "none"
    /\ arg = Empty
    /\ result = Empty
    /\ transform_count = 0
    /\ sample_count = 0
    /\ stages = << >>
    /\ last_stage = NoStage
    /\ ret = Empty
    /\ pass = "none"

RBIdle ==
    /\ rb = NoRB
    /\ rb_args = <<0, 0>>
    /\ rb_iters = 0
    /\ rb_ret = 0

\* The locals of a finished test are gone.
SeqReset ==
    /\ test' = "none"
    /\ test_signal' = Empty
    /\ fn' = "none"
    /\ arg' = Empty
    /\ result' = Empty
    /\ transform_count' = 0
    /\ sample_count' = 0
    /\ stages' = << >>
    /\ last_stage' = NoStage
    /\ ret' = Empty
    /\ pass' = "none"

RBReset ==
    /\ rb' = NoRB
    /\ rb_args' = <<0, 0>>
    /\ rb_iters' = 0
    /\ rb_ret' = 0

(***************************************************************************)
(* The OpenCL backend as class Fourier uses it. The model starts after the *)
(* platform and the device have been selected (get_platform, get_device).  *)
(***************************************************************************)
Buffers == {"X", "Y1", "Y2"}

\* The access flags the constructor gives clCreateBuffer.
MemFlags ==
    [b \in Buffers |-> IF b = "X" THEN "CL_MEM_READ_ONLY" ELSE "CL_MEM_WRITE_ONLY"]

\* The status codes error_code_to_string knows by name.
KnownCodes ==
    {"CL_INVALID_COMMAND_QUEUE", "CL_INVALID_CONTEXT", "CL_INVALID_DEVICE",
     "CL_INVALID_EVENT_WAIT_LIST", "CL_INVALID_GLOBAL_OFFSET",
     "CL_INVALID_GLOBAL_WORK_SIZE", "CL_INVALID_IMAGE_SIZE", "CL_INVALID_KERNEL_ARGS",
     "CL_INVALID_KERNEL", "CL_INVALID_PROGRAM_EXECUTABLE", "CL_INVALID_VALUE",
     "CL_INVALID_WORK_DIMENSION", "CL_INVALID_WORK_GROUP_SIZE",
     "CL_INVALID_WORK_ITEM_SIZE", "CL_MEM_OBJECT_ALLOCATION_FAILURE",
     "CL_MISALIGNED_SUB_BUFFER_OFFSET", "CL_OUT_OF_HOST_MEMORY", "CL_OUT_OF_RESOURCES",
     "CL_SUCCESS"}

error_code_to_string(ec) == IF ec \in KnownCodes THEN ec ELSE "<UNKNOWN>"

\* The statuses a backend call reports in the model: success, a failure the
\* table names and one it does not.
FailCodes == {"CL_OUT_OF_RESOURCES", "CL_INVALID_MEM_OBJECT"}
Statuses == {"CL_SUCCESS"} \cup FailCodes

\* The constructor's calls in order, each with the message of its fatal().
CtorCalls ==
    << [api |-> "clCreateContext", what |-> "", msg |-> "ERROR: Could not create contex."],
       [api |-> "clCreateCommandQueue", what |-> "",
        msg |-> "ERROR: Could not create command queue."],
       [api |-> "read_program", what |-> "fourier.cl",
        msg |-> "ERROR: Could not read file: fourier.cl"],
       [api |-> "clCreateProgramWithSource", what |-> "",
        msg |-> "ERROR: Could not create program."],
       [api |-> "clBuildProgram", what |-> "", msg |-> "ERROR: Could not build program."],
       [api |-> "clCreateKernel", what |-> "fft_init",
        msg |-> "ERROR: Could not create init kernel."],
       [api |-> "clCreateKernel", what |-> "fft_step",
        msg |-> "ERROR: Could not create step kernel."],
       [api |-> "clCreateBuffer", what |-> "X", msg |-> "ERROR: Could not create X buffer."],
       [api |-> "clCreateBuffer", what |-> "Y1", msg |-> "ERROR: Could not create Y1 buffer."],
       [api |-> "clCreateBuffer", what |-> "Y2", msg |-> "ERROR: Could not create Y2 buffer."] >>

\* Fourier::sample_count
SampleCount == 2^m_sample_power

\* A buffer or a host vector whose contents do not follow from the operation
\* under way: never written, left by an earlier operation, or read where the
\* access is undefined.
Undefined == [def |-> FALSE, data |-> Empty]
Defined(d) == [def |-> TRUE, data |-> d]

\* convert(cl_float2*, Complex const*, count) by way of to_float2_vector
to_float2_vector(vec) == [j \in DOMAIN vec |-> <<Re(vec[j]), Im(vec[j])>>]

\* convert(Complex*, cl_float2 const*, count): Complex(s[0], s[1])
convert(src) == [j \in DOMAIN src |-> CAdd(src[j][1], CMul(ImagI, src[j][2]))]

\* The kernel fft_init: y[j] = x[reverseBits(j, 2^m)].
KernelInit(x, m) == to_float2_vector(fft_init(convert(x), 2^m))

\* The kernel fft_step: output j from the pair of its block of size 2*Bk.
KernelStep(yb, Bk) ==
    LET yc == convert(yb)
        S == 2 * Bk
    IN  to_float2_vector(
            [j \in DOMAIN yc |->
                LET p == j % S
                    a == IF p < Bk THEN yc[j] ELSE yc[j - Bk]
                    b == IF p < Bk THEN yc[j + Bk] ELSE yc[j]
                IN  CAdd(a, CMul(W(p, S), b))])

\* Whether a kernel that reads buffer b finds its contents: where the buffer
\* was created without read access for kernels the read is undefined, and the
\* kernel may find the contents or anything else.
ReadOutcomes(b) == IF MemFlags[b] = "CL_MEM_WRITE_ONLY" THEN {TRUE, FALSE} ELSE {TRUE}

UnsetArgs == <<"unset", 0, "unset">>

HostIdle ==
    /\ y_mem = "none"
    /\ y_alt = "none"
    /\ B = 0
    /\ kernel = "none"
    /\ cur_args = UnsetArgs
    /\ argi = 0
    /\ y_buffer = Undefined
    /\ spectrum = Undefined

DevIdle ==
    /\ mem = [b \in Buffers |-> Undefined]
    /\ kargs = [k \in {"fft_init", "fft_step"} |-> UnsetArgs]
    /\ cl_queue = << >>
    /\ executed = << >>
    /\ stale = {}

HostReset ==
    /\ y_mem' = "none"
    /\ y_alt' = "none"
    /\ B' = 0
    /\ kernel' = "none"
    /\ cur_args' = UnsetArgs
    /\ argi' = 0
    /\ y_buffer' = Undefined
    /\ spectrum' = Undefined

\* What an operation leaves in the buffers and in the kernels' arguments is
\* not what the next one finds defined.
DevReset ==
    /\ mem' = [b \in Buffers |-> Undefined]
    /\ kargs' = [k \in {"fft_init", "fft_step"} |-> UnsetArgs]
    /\ cl_queue' = << >>
    /\ executed' = << >>
    /\ stale' = {}

\* An operation has returned: what it wrote stays in the buffers, and is to
\* the next operation contents it did not write.
DevLeave ==
    /\ mem' = [b \in Buffers |-> Undefined]
    /\ kargs' = [k \in {"fft_init", "fft_step"} |-> UnsetArgs]
    /\ cl_queue' = << >>
    /\ executed' = << >>
    /\ stale' = stale \cup {b \in Buffers :
                              \E k \in 1..Len(executed) :
                                 \/ executed[k].op = "write" /\ executed[k].args[1] = b
                                 \/ executed[k].op \in {"fft_init", "fft_step"}
                                      /\ executed[k].args[3] = b}

\* main after Fourier fourier(MaxPower): the tests of the iterative transforms.
Init ==
    /\ pc = "idle"
    /\ SeqIdle
    /\ RBIdle
    /\ m_sample_power = MaxPower
    /\ ctor = Len(CtorCalls) + 1
    /\ DevIdle
    /\ HostIdle
    /\ oplog = << >>
    /\ stdout = << >>

\* main at Fourier's constructor, for each sample power.
ParInit ==
    /\ pc = "ctor"
    /\ SeqIdle
    /\ RBIdle
    /\ m_sample_power \in 0..MaxPower
    /\ ctor = 1
    /\ DevIdle
    /\ HostIdle
    /\ oplog = << >>
    /\ stdout = << >>

N == Size(arg)

(***************************************************************************)
(* main's tests of the iterative transforms.                               *)
(***************************************************************************)
SeqTests == {"prop_dft_equal_fft", "prop_idft_equal_ifft", "prop_inverse_fft"}

\* The transform a test calls first.
FirstCall(t) == IF t = "prop_idft_equal_ifft" THEN "ifft" ELSE "fft"

\* main calls a property of the iterative transforms on a signal; the property
\* calls the transform, which allocates Signal result(N).
StartTest ==
    /\ pc = "idle"
    /\ \E t \in SeqTests, len \in Lengths :
         \E s \in Signals(len, MaxNonZero) :
            /\ test' = t
            /\ test_signal' = s
            /\ fn' = FirstCall(t)
            /\ arg' = s
            /\ result' = [j \in 0..(len - 1) |-> Zero]
            /\ pc' = IF FirstCall(t) = "fft" THEN "fft_init" ELSE "ifft_init"
    /\ UNCHANGED <<transform_count, sample_count, stages, last_stage, ret, pass, rb_vars,
                   par_vars>>

\* fft: fft_init(&result[0], &signal[0], N); size_t transform_count = N/2;
FftInit ==
    /\ pc = "fft_init"
    /\ LET perm == Permutation(N)
       IN  IF PermuteReturns(perm)
           THEN /\ result' = Permute(arg, perm)
                /\ transform_count' = N \div 2
                /\ pc' = "fft_loop"
           ELSE /\ pc' = "hung"
                /\ UNCHANGED <<result, transform_count>>
    /\ UNCHANGED <<test, test_signal, fn, arg, sample_count, stages, last_stage, ret, pass,
                   rb_vars, par_vars>>

\* --transform_count in place of the shift.
DecrementCount(T) == T - 1

\* transform_count >>= 1
HalveCount(T) == T \div 2

\* One iteration of fft's while (transform_count >= 1).
FftStage ==
    /\ pc = "fft_loop"
    /\ transform_count >= 1
    /\ LET S == N \div transform_count
       IN  /\ sample_count' = S
           /\ result' = fft_step(result, transform_count, S)
           /\ stages' = Append(stages, <<transform_count, S>>)
           /\ last_stage' = [before |-> result,
                             accesses |-> StepAccesses(transform_count, S)]
    /\ transform_count' = HalveCount(transform_count)
    /\ UNCHANGED <<pc, test, test_signal, fn, arg, ret, pass, rb_vars, par_vars>>

\* ifft: the permutation loop; sample_count = 2; transform_count = N/sample_count;
IfftInit ==
    /\ pc = "ifft_init"
    /\ LET perm == Permutation(N)
       IN  IF PermuteReturns(perm)
           THEN /\ result' = Permute(arg, perm)
                /\ sample_count' = 2
                /\ transform_count' = N \div 2
                /\ pc' = "ifft_loop"
           ELSE /\ pc' = "hung"
                /\ UNCHANGED <<result, sample_count, transform_count>>
    /\ UNCHANGED <<test, test_signal, fn, arg, stages, last_stage, ret, pass, rb_vars,
                   par_vars>>

\* One iteration of ifft's while (sample_count <= N), the assertion first.
IfftStage ==
    /\ pc = "ifft_loop"
    /\ sample_count <= N
    /\ IF transform_count * sample_count = N
       THEN /\ result' = ifft_stage(result, transform_count, sample_count)
            /\ stages' = Append(stages, <<transform_count, sample_count>>)
            /\ last_stage' = [before |-> result,
                              accesses |-> StepAccesses(transform_count, sample_count)]
            /\ transform_count' = HalveCount(transform_count)
            /\ sample_count' = sample_count * 2
            /\ pc' = pc
       ELSE /\ pc' = "aborted"
            /\ UNCHANGED <<result, stages, last_stage, transform_count, sample_count>>
    /\ UNCHANGED <<test, test_signal, fn, arg, ret, pass, rb_vars, par_vars>>

\* What test_residue prints for error(a, b): real(dot(e, e))/e.size() is 0/0
\* for empty signals, and no NaN is below eps.
Residue(a, b) == IF Size(a) > 0 /\ ResidueIsZero(a, b) THEN "PASS" ELSE "FAIL"

\* The transform returns result. prop_inverse_fft passes fft's value on to ifft;
\* the other properties compare it with the direct transform and main prints.
Return ==
    /\ \/ pc = "fft_loop" /\ ~(transform_count >= 1)
       \/ pc = "ifft_loop" /\ ~(sample_count <= N)
    /\ ret' = result
    /\ IF test = "prop_inverse_fft" /\ fn = "fft"
       THEN /\ fn' = "ifft"
            /\ arg' = result
            /\ result' = [j \in 0..(N - 1) |-> Zero]
            /\ stages' = << >>
            /\ last_stage' = NoStage
            /\ pc' = "ifft_init"
            /\ pass' = pass
       ELSE /\ pass' = CASE test = "prop_dft_equal_fft" -> Residue(dft(test_signal), result)
                         [] test = "prop_idft_equal_ifft" -> Residue(idft(test_signal), result)
                         [] OTHER -> Residue(test_signal, result)
            /\ pc' = "test_done"
            /\ UNCHANGED <<fn, arg, result, stages, last_stage>>
    /\ UNCHANGED <<test, test_signal, transform_count, sample_count, rb_vars, par_vars>>

(***************************************************************************)
(* main's tests of reverse_bits.                                           *)
(***************************************************************************)
\* prop_reverse_bits(n, max, correct) calls reverse_bits(n, max).
StartReverseBits ==
    /\ pc = "idle"
    /\ \E m \in 0..MaxRevPower :
         \E n \in 0..(2^m - 1) :
            /\ rb' = RBEntry(n, 2^m)
            /\ rb_args' = <<n, 2^m>>
    /\ test' = "prop_reverse_bits"
    /\ pc' = "rb_loop"
    /\ UNCHANGED <<test_signal, fn, arg, result, transform_count, sample_count,
                   stages, last_stage, ret, pass, rb_iters, rb_ret, par_vars>>

\* One iteration of reverse_bits' loop.
RBIter ==
    /\ pc = "rb_loop"
    /\ RBCond(rb)
    /\ rb' = RBBody(rb)
    /\ rb_iters' = rb_iters + 1
    /\ UNCHANGED <<pc, seq_vars, rb_args, rb_ret, par_vars>>

\* return result;
RBReturn ==
    /\ pc = "rb_loop"
    /\ ~RBCond(rb)
    /\ rb_ret' = FromWord(rb.result)
    /\ pc' = "test_done"
    /\ UNCHANGED <<seq_vars, rb, rb_args, rb_iters, par_vars>>

\* main goes on to its next test.
NextTest ==
    /\ pc = "test_done"
    /\ test \in SeqTests \cup {"prop_reverse_bits"}
    /\ pc' = "idle"
    /\ SeqReset
    /\ RBReset
    /\ UNCHANGED par_vars

\* A loop that never exits.
Spin ==
    /\ pc = "hung"
    /\ UNCHANGED vars

(***************************************************************************)
(* Fourier: the constructor and the operations init, step and fft.         *)
(***************************************************************************)
Call(api, what, args, status) ==
    [api |-> api, what |-> what, args |-> args, status |-> status]

\* fatal(msg) after the lines printed first: the process is gone.
Fatal(call, lines) ==
    /\ pc' = "aborted"
    /\ oplog' = Append(oplog, call)
    /\ stdout' = stdout \o lines
    /\ HostReset
    /\ DevReset
    /\ UNCHANGED <<seq_vars, rb_vars, m_sample_power, ctor>>

\* One call of the constructor other than read_program. A create call that
\* fails returns NULL and its status goes nowhere: errcode_ret is NULL.
CtorCall ==
    /\ pc = "ctor"
    /\ CtorCalls[ctor].api # "read_program"
    /\ \E st \in Statuses :
         LET c == CtorCalls[ctor]
             call == Call(c.api, c.what, << >>, st)
         IN  IF st = "CL_SUCCESS"
             THEN /\ oplog' = IF ctor = Len(CtorCalls) THEN << >> ELSE Append(oplog, call)
                  /\ ctor' = ctor + 1
                  /\ pc' = IF ctor = Len(CtorCalls) THEN "idle" ELSE "ctor"
                  /\ UNCHANGED <<seq_vars, rb_vars, m_sample_power, dev_vars, host_vars,
                                 stdout>>
             ELSE IF c.api = "clBuildProgram"
             THEN /\ oplog' = Append(oplog, call)
                  /\ pc' = "ctor_build_failed"
                  /\ UNCHANGED <<seq_vars, rb_vars, m_sample_power, ctor, dev_vars,
                                 host_vars, stdout>>
             ELSE Fatal(call, <<c.msg>>)

\* read_program("fourier.cl")
CtorReadProgram ==
    /\ pc = "ctor"
    /\ CtorCalls[ctor].api = "read_program"
    /\ \E st \in {"ok", "no file"} :
         LET c == CtorCalls[ctor]
             call == Call(c.api, c.what, << >>, st)
         IN  IF st = "ok"
             THEN /\ oplog' = Append(oplog, call)
                  /\ ctor' = ctor + 1
                  /\ UNCHANGED <<pc, seq_vars, rb_vars, m_sample_power, dev_vars,
                                 host_vars, stdout>>
             ELSE Fatal(call, <<c.msg>>)

\* clBuildProgram failed: clGetProgramBuildInfo, the log, fatal().
CtorBuildInfo ==
    /\ pc = "ctor_build_failed"
    /\ \E st \in Statuses :
         LET call == Call("clGetProgramBuildInfo", "", << >>, st)
         IN  IF st = "CL_SUCCESS"
             THEN Fatal(call, <<"<build log>", CtorCalls[ctor].msg>>)
             ELSE Fatal(call, <<"ERROR: Could not get program build info.">>)

ParTests == {"prop_fftcl_init_equals_fft_init", "prop_fftcl_step_equals_fft_step",
             "prop_fftcl_equals_fft"}

\* The operation of Fourier a test calls.
Operation ==
    CASE test = "prop_fftcl_init_equals_fft_init" -> "init"
      [] test = "prop_fftcl_step_equals_fft_step" -> "step"
      [] test = "prop_fftcl_equals_fft" -> "fft"
      [] OTHER -> "none"

\* main calls a property of Fourier on a signal of sample_count() samples;
\* prop_fftcl_step_equals_fft_step has a block size B below the length.
StartParTest ==
    /\ pc = "idle"
    /\ \E t \in ParTests, s \in ParSignals(SampleCount) :
         /\ test' = t
         /\ test_signal' = s
         /\ IF t = "prop_fftcl_step_equals_fft_step"
            THEN \E k \in 0..(m_sample_power - 1) : B' = 2^k
            ELSE B' = 0
    /\ pc' = "load"
    /\ UNCHANGED <<pass, seq_locals, rb_vars, m_sample_power, ctor, dev_vars, y_mem,
                   y_alt, kernel, cur_args, argi, y_buffer, spectrum, oplog, stdout>>

\* The buffer the operation uploads into and the one it reads back.
LoadMem == IF Operation = "step" THEN "Y1" ELSE "X"
StoreMem == CASE Operation = "fft" -> y_mem
              [] Operation = "init" -> "Y1"
              [] OTHER -> "Y2"

\* load(mem, to_float2_vector(src)): clEnqueueWriteBuffer, blocking.
Load ==
    /\ pc = "load"
    /\ \E st \in Statuses :
         LET call == Call("clEnqueueWriteBuffer", LoadMem, << >>, st)
         IN  IF st = "CL_SUCCESS"
             THEN /\ cl_queue' = Append(cl_queue,
                                   [op |-> "write", args |-> <<LoadMem>>,
                                    data |-> to_float2_vector(test_signal)])
                  /\ oplog' = Append(oplog, call)
                  /\ pc' = "load_wait"
                  /\ UNCHANGED <<seq_vars, rb_vars, m_sample_power, ctor, mem, kargs, stale,
                                 executed, host_vars, stdout>>
             ELSE Fatal(call, <<"ERROR: Coule not write to buffer.">>)

\* A transfer enqueued with blocking = CL_FALSE returns at once.
NonBlockingReturns == TRUE

\* A transfer enqueued with blocking = CL_TRUE returns once the in-order queue
\* has executed it, and so every command enqueued before it.
BlockingReturns == cl_queue = << >>

\* The blocking write returns; init(m_x_mem, m_sample_power, m_y1_mem) or
\* step(m_y1_mem, B, m_y2_mem) is entered.
LoadReturns ==
    /\ pc = "load_wait"
    /\ BlockingReturns
    /\ IF Operation = "step"
       THEN /\ kernel' = "fft_step"
            /\ cur_args' = <<"Y1", B, "Y2">>
       ELSE /\ kernel' = "fft_init"
            /\ cur_args' = <<"X", m_sample_power, "Y1">>
    /\ argi' = 0
    /\ pc' = "set_arg"
    /\ UNCHANGED <<seq_vars, rb_vars, m_sample_power, ctor, dev_vars, y_mem, y_alt, B,
                   y_buffer, spectrum, oplog, stdout>>

\* set_arg(kernel, argi, ...): clSetKernelArg.
SetArg ==
    /\ pc = "set_arg"
    /\ \E st \in Statuses :
         LET call == Call("clSetKernelArg", kernel, <<argi, cur_args[argi + 1]>>, st)
         IN  IF st = "CL_SUCCESS"
             THEN /\ kargs' = [kargs EXCEPT ![kernel][argi + 1] = cur_args[argi + 1]]
                  /\ argi' = argi + 1
                  /\ pc' = IF argi = 2 THEN "run_kernel" ELSE "set_arg"
                  /\ oplog' = Append(oplog, call)
                  /\ UNCHANGED <<seq_vars, rb_vars, m_sample_power, ctor, mem, stale, cl_queue,
                                 executed, y_mem, y_alt, B, kernel, cur_args, y_buffer,
                                 spectrum, stdout>>
             ELSE Fatal(call, <<"ERROR: Could not set kernel argument.">>)

\* The locals after init() with the two buffers exchanged.
AfterInitSwapped ==
    /\ y_mem' = "Y2"
    /\ y_alt' = "Y1"
    /\ B' = 1

\* Where Fourier::fft goes on after init() returns: y = Y1, y_ = Y2, B = 1.
AfterInit ==
    /\ y_mem' = "Y1"
    /\ y_alt' = "Y2"
    /\ B' = 1

\* The locals after step() without the swap.
AfterStepNoSwap ==
    /\ y_mem' = y_mem
    /\ y_alt' = y_alt
    /\ B' = B * 2

\* Where Fourier::fft goes on after step() returns: std::swap(y, y_); B <<= 1.
AfterStep ==
    /\ y_mem' = y_alt
    /\ y_alt' = y_mem
    /\ B' = B * 2

\* run_kernel(kernel): clEnqueueNDRangeKernel over sample_count() work-items,
\* with the arguments bound at this moment; it does not wait.
RunKernel ==
    /\ pc = "run_kernel"
    /\ \E st \in Statuses :
         LET call == Call("clEnqueueNDRangeKernel", kernel, kargs[kernel], st)
         IN  IF st = "CL_SUCCESS"
             THEN /\ cl_queue' = Append(cl_queue,
                                   [op |-> kernel, args |-> kargs[kernel], data |-> Empty])
                  /\ oplog' = Append(oplog, call)
                  /\ IF Operation = "fft"
                     THEN /\ IF kernel = "fft_init" THEN AfterInit ELSE AfterStep
                          /\ pc' = "loop"
                     ELSE /\ pc' = "store"
                          /\ UNCHANGED <<y_mem, y_alt, B>>
                  /\ UNCHANGED <<seq_vars, rb_vars, m_sample_power, ctor, mem, kargs, stale,
                                 executed, kernel, cur_args, argi, y_buffer, spectrum,
                                 stdout>>
             ELSE Fatal(call, <<error_code_to_string(st),
                                "ERROR: Could not enqueue kernel.">>)

\* The loop condition leaving one stage early.
LoopCondEarly == B * 2 < SampleCount

\* Fourier::fft's loop condition B != sample_count()
LoopCond == B # SampleCount

\* while (B != sample_count()): step(y, B, y_) is entered.
LoopEnter ==
    /\ pc = "loop"
    /\ LoopCond
    /\ kernel' = "fft_step"
    /\ cur_args' = <<y_mem, B, y_alt>>
    /\ argi' = 0
    /\ pc' = "set_arg"
    /\ UNCHANGED <<seq_vars, rb_vars, m_sample_power, ctor, dev_vars, y_mem, y_alt, B,
                   y_buffer, spectrum, oplog, stdout>>

\* The loop is left.
LoopExit ==
    /\ pc = "loop"
    /\ ~LoopCond
    /\ pc' = "store"
    /\ UNCHANGED <<seq_vars, rb_vars, par_vars>>

\* std::vector<cl_float2> buffer(sample_count()); store(&buffer[0], mem):
\* clEnqueueReadBuffer, blocking.
Store ==
    /\ pc = "store"
    /\ \E st \in Statuses :
         LET call == Call("clEnqueueReadBuffer", StoreMem, << >>, st)
         IN  IF st = "CL_SUCCESS"
             THEN /\ cl_queue' = Append(cl_queue,
                                   [op |-> "read", args |-> <<StoreMem>>, data |-> Empty])
                  /\ y_buffer' = Defined([j \in 0..(SampleCount - 1) |-> <<Zero, Zero>>])
                  /\ oplog' = Append(oplog, call)
                  /\ pc' = "store_wait"
                  /\ UNCHANGED <<seq_vars, rb_vars, m_sample_power, ctor, mem, kargs, stale,
                                 executed, y_mem, y_alt, B, kernel, cur_args, argi,
                                 spectrum, stdout>>
             ELSE Fatal(call, <<error_code_to_string(st),
                                "ERROR: Could not read buffer.">>)

\* The blocking read returns.
StoreReturns ==
    /\ pc = "store_wait"
    /\ BlockingReturns
    /\ pc' = "finish"
    /\ UNCHANGED <<seq_vars, rb_vars, par_vars>>

\* What the property computes with the iterative transform.
RECURSIVE FftLoop(_, _, _)
FftLoop(y, len, T) ==
    IF T >= 1 THEN FftLoop(fft_step(y, T, len \div T), len, HalveCount(T)) ELSE y

\* fft(signal), for a length whose permutation loop returns.
fft(signal) == FftLoop(fft_init(signal, Size(signal)), Size(signal), Size(signal) \div 2)

Expected ==
    CASE Operation = "init" -> fft_init(test_signal, Size(test_signal))
      [] Operation = "step" ->
           fft_step(test_signal, (Size(test_signal) \div B) \div 2, 2 * B)
      [] OTHER -> fft(test_signal)

\* finish(): clFinish returns when the queue is empty; convert(dst, buffer);
\* the property returns error(expected, actual) and main prints.
Finish ==
    /\ pc = "finish"
    /\ \E st \in Statuses :
         LET call == Call("clFinish", "", << >>, st)
         IN  IF st = "CL_SUCCESS"
             THEN /\ cl_queue = << >>
                  /\ spectrum' = IF y_buffer.def THEN Defined(convert(y_buffer.data))
                                 ELSE Undefined
                  /\ pass' = IF y_buffer.def
                             THEN Residue(Expected, convert(y_buffer.data))
                             ELSE "FAIL"
                  /\ oplog' = Append(oplog, call)
                  /\ pc' = "par_done"
                  /\ UNCHANGED <<test, test_signal, seq_locals, rb_vars, m_sample_power,
                                 ctor, dev_vars, y_mem, y_alt, B, kernel, cur_args, argi,
                                 y_buffer, stdout>>
             ELSE Fatal(call, <<"ERROR: Could not finish.">>)

\* The device executes the command at the head of the in-order queue.
Execute ==
    /\ pc # "aborted"
    /\ cl_queue # << >>
    /\ LET cmd == Head(cl_queue)
       IN  /\ cl_queue' = Tail(cl_queue)
           /\ CASE cmd.op = "write" ->
                     /\ mem' = [mem EXCEPT ![cmd.args[1]] = Defined(cmd.data)]
                     /\ executed' = Append(executed, [op |-> cmd.op, args |-> cmd.args,
                                                      met |-> TRUE, stale |-> FALSE])
                     /\ stale' = stale \ {cmd.args[1]}
                     /\ UNCHANGED y_buffer
                [] cmd.op = "read" ->
                     /\ y_buffer' = mem[cmd.args[1]]
                     /\ executed' = Append(executed, [op |-> cmd.op, args |-> cmd.args,
                                                      met |-> TRUE,
                                                      stale |-> cmd.args[1] \in stale])
                     /\ UNCHANGED <<mem, stale>>
                [] OTHER ->
                     \E found \in ReadOutcomes(cmd.args[1]) :
                        LET src == IF found THEN mem[cmd.args[1]] ELSE Undefined
                            out == IF cmd.op = "fft_init"
                                   THEN KernelInit(src.data, cmd.args[2])
                                   ELSE KernelStep(src.data, cmd.args[2])
                        IN  /\ mem' = [mem EXCEPT ![cmd.args[3]] =
                                         IF src.def THEN Defined(out) ELSE Undefined]
                            /\ executed' = Append(executed,
                                                  [op |-> cmd.op, args |-> cmd.args,
                                                   met |-> found,
                                                   stale |-> cmd.args[1] \in stale])
                            /\ stale' = stale \ {cmd.args[3]}
                            /\ UNCHANGED y_buffer
    /\ UNCHANGED <<pc, seq_vars, rb_vars, m_sample_power, ctor, kargs, y_mem, y_alt, B,
                   kernel, cur_args, argi, spectrum, oplog, stdout>>

\* main goes on to its next test.
ParNextTest ==
    /\ pc = "par_done"
    /\ pc' = "idle"
    /\ SeqReset
    /\ HostReset
    /\ DevLeave
    /\ oplog' = << >>
    /\ UNCHANGED <<rb_vars, m_sample_power, ctor, stdout>>

Next ==
    \/ StartTest
    \/ FftInit
    \/ FftStage
    \/ IfftInit
    \/ IfftStage
    \/ Return
    \/ StartReverseBits
    \/ RBIter
    \/ RBReturn
    \/ NextTest
    \/ Spin

Spec == Init /\ [][Next]_vars

ParNext ==
    \/ CtorCall
    \/ CtorReadProgram
    \/ CtorBuildInfo
    \/ StartParTest
    \/ Load
    \/ LoadReturns
    \/ SetArg
    \/ RunKernel
    \/ LoopEnter
    \/ LoopExit
    \/ Store
    \/ StoreReturns
    \/ Finish
    \/ Execute
    \/ ParNextTest

ParSpec == ParInit /\ [][ParNext]_vars

(***************************************************************************)
(* Properties of the iterative transforms (Spec).                          *)
(***************************************************************************)
Pow2Test == test \in SeqTests /\ IsPow2(Size(test_signal))

\* C1: for every signal of power-of-two length N, fft(signal) is dft(signal),
\* so that the residual main prints is below eps: after the permutation and
\* log2(N) stages, output k is the sum over n of signal[n]*exp(-2*pi*i*k*n/N).
C1_FftEqualsDft ==
    (pc = "test_done" /\ test = "prop_dft_equal_fft" /\ Pow2Test)
        => /\ Len(stages) = Log2(Size(test_signal))
           /\ \A k \in DOMAIN ret :
                ret[k] = CSumTo([n \in DOMAIN test_signal |->
                                   CMul(test_signal[n],
                                        Cis(-(k * n), Size(test_signal)))],
                                Size(test_signal))
           /\ ret = dft(test_signal)
           /\ pass = "PASS"

C1_Witness ==
    /\ pc = "test_done"
    /\ test = "prop_dft_equal_fft"
    /\ test_signal = Literal8
    /\ ret # test_signal
    /\ pass = "PASS"

\* C2: for every signal of power-of-two length, ifft(fft(signal)) is the
\* signal at every index, so that the residual main prints is below eps.
C2_InverseFft ==
    (pc = "test_done" /\ test = "prop_inverse_fft" /\ Pow2Test)
        => /\ fn = "ifft"
           /\ arg = fft(test_signal)
           /\ \A j \in DOMAIN test_signal : ret[j] = test_signal[j]
           /\ DOMAIN ret = DOMAIN test_signal
           /\ pass = "PASS"

C2_Witness ==
    /\ pc = "test_done"
    /\ test = "prop_inverse_fft"
    /\ test_signal = Literal8
    /\ arg # test_signal
    /\ ret = test_signal

\* Bit b of n.
BitOf(n, b) == (n \div 2^b) % 2

\* The number whose bit k is bit (m-1-k) of n, for k in [0, m).
BitReversed(n, m) == SumTo([k \in 0..(m - 1) |-> BitOf(n, m - 1 - k) * 2^k], m)

\* C3: for max = 2^m and n in [0, max), reverse_bits(n, max) returns the number
\* whose bit k is bit (m-1-k) of n, after exactly m iterations of its loop;
\* reverse_bits(0xAA, 0x100) = 0x55 and reverse_bits(0xA5, 0x100) = 0xA5.
C3_ReverseBits ==
    (test = "prop_reverse_bits")
        => LET n == rb_args[1]
               m == Log2(rb_args[2])
           IN  /\ rb_iters <= m
               /\ rb.i = ToWord(2^rb_iters)
               /\ pc = "rb_loop" /\ rb_iters = m => ~RBCond(rb)
               /\ pc = "test_done"
                    => /\ rb_iters = m
                       /\ rb_ret = BitReversed(n, m)
                       /\ rb_args = <<170, 256>> => rb_ret = 85
                       /\ rb_args = <<165, 256>> => rb_ret = 165

C3_Witness ==
    /\ pc = "test_done"
    /\ rb_args = <<170, 256>>
    /\ rb_iters = 8
    /\ rb_ret = 85

\* C5: fft or ifft called with a signal whose length is not a power of two
\* ends in a precondition failure: it neither returns a spectrum nor runs on
\* without an outcome.
C5_NonPow2Rejected ==
    (fn \in {"fft", "ifft"} /\ ~IsPow2(Size(arg)))
        => pc \notin {"test_done", "hung"}

\* C10: for a power-of-two N, fft and ifft run exactly log2(N) stages and leave
\* their loop; stage k has block size S = 2^k and block count T = N/2^k, so
\* T*S = N at every stage and ifft's assertion does not fail.
C10_Stages ==
    (fn \in {"fft", "ifft"} /\ IsPow2(N))
        => /\ pc \notin {"aborted", "hung"}
           /\ Len(stages) <= Log2(N)
           /\ \A k \in 1..Len(stages) :
                /\ stages[k] = <<N \div 2^k, 2^k>>
                /\ stages[k][1] * stages[k][2] = N
           /\ pc = "fft_loop"
                => (Len(stages) = Log2(N) <=> ~(transform_count >= 1))
           /\ pc = "ifft_loop"
                => /\ Len(stages) = Log2(N) <=> ~(sample_count <= N)
                   /\ sample_count <= N => transform_count * sample_count = N
           /\ pc = "test_done" => Len(stages) = Log2(N)

C10_Witness ==
    /\ pc = "ifft_loop"
    /\ N = M
    /\ Len(stages) = MaxPower
    /\ stages[MaxPower] = <<1, M>>

(***************************************************************************)
(* Properties of Fourier (ParSpec).                                        *)
(***************************************************************************)
IsKernel(c) == c.op \in {"fft_init", "fft_step"}
IsDispatch(c) == c.api = "clEnqueueNDRangeKernel"
IsRead(c) == c.api = "clEnqueueReadBuffer"
IsDataCall(c) ==
    c.api \in {"clEnqueueWriteBuffer", "clEnqueueNDRangeKernel", "clEnqueueReadBuffer"}

\* The kernels the device has executed, the dispatches and the transfers and
\* dispatches the host has issued, in order.
Kernels == SelectSeq(executed, IsKernel)
Dispatches == SelectSeq(oplog, IsDispatch)
DataCalls == SelectSeq(oplog, IsDataCall)

\* Every kernel executed so far found the contents of the buffer it read.
ContractMet == \A k \in 1..Len(executed) : executed[k].met

\* The iterative transform's array after fft_init and the first k stages.
RECURSIVE FftPrefix(_, _)
FftPrefix(signal, k) ==
    IF k = 0 THEN fft_init(signal, Size(signal))
    ELSE fft_step(FftPrefix(signal, k - 1), Size(signal) \div 2^k, 2^k)

\* What the iterative transform holds where Fourier has executed its k-th kernel.
SequentialAfter(k) ==
    CASE Operation = "fft" -> FftPrefix(test_signal, k - 1)
      [] OTHER -> Expected

\* C4: with kernels that meet their contract, Fourier is a stage-by-stage
\* refinement of the iterative transform: the buffer the init dispatch wrote
\* is fft_init's permutation, the buffer step(B) wrote is the array after
\* fft_step(N/(2B), 2B), and the spectrum read back is fft(signal).
C4_Refinement ==
    (test \in ParTests /\ pc # "aborted" /\ ContractMet)
        => /\ Len(Kernels) >= 1
                => LET last == Kernels[Len(Kernels)]
                   IN  /\ mem[last.args[3]].def
                       /\ convert(mem[last.args[3]].data) = SequentialAfter(Len(Kernels))
                       /\ last.op = "fft_step"
                            => SequentialAfter(Len(Kernels)) =
                                 fft_step(IF Operation = "fft"
                                          THEN SequentialAfter(Len(Kernels) - 1)
                                          ELSE test_signal,
                                          SampleCount \div (2 * last.args[2]),
                                          2 * last.args[2])
           /\ pc = "par_done"
                => /\ spectrum = Defined(Expected)
                   /\ Operation = "fft" => spectrum.data = fft(test_signal)
                   /\ pass = "PASS"

C4_Witness ==
    /\ pc = "par_done"
    /\ Operation = "fft"
    /\ test_signal = Literal8
    /\ ContractMet
    /\ Len(Kernels) = 4
    /\ spectrum.data = fft(Literal8)

\* The message of the fatal() that follows a failure of the call.
Diagnostic(c) ==
    CASE c.api = "clEnqueueWriteBuffer" -> "ERROR: Coule not write to buffer."
      [] c.api = "clSetKernelArg" -> "ERROR: Could not set kernel argument."
      [] c.api = "clEnqueueNDRangeKernel" -> "ERROR: Could not enqueue kernel."
      [] c.api = "clEnqueueReadBuffer" -> "ERROR: Could not read buffer."
      [] c.api = "clFinish" -> "ERROR: Could not finish."
      [] c.api = "clGetProgramBuildInfo" -> "ERROR: Could not get program build info."
      [] OTHER -> (CHOOSE x \in {CtorCalls[k] : k \in 1..Len(CtorCalls)} :
                      x.api = c.api /\ x.what = c.what).msg

Failed(c) == c.status \in FailCodes

\* C6: when a backend operation fails the run aborts at that point, with no
\* later backend call and no result, and the diagnostic names the failing
\* operation and includes the status the backend reported.
C6_FatalDiagnostic ==
    \A k \in 1..Len(oplog) :
        Failed(oplog[k])
            => /\ pc = "aborted"
               /\ k = Len(oplog)
               /\ ~spectrum.def
               /\ stdout # << >>
               /\ stdout[Len(stdout)] = Diagnostic(oplog[k])
               /\ \E l \in 1..Len(stdout) : stdout[l] = oplog[k].status

\* The k-th transfer or dispatch of one Fourier::fft: the upload into X, the
\* init dispatch from X into Y1, the step dispatches with B = 1, 2, 4, ...,
\* the download.
FftCallMatches(c, k) ==
    CASE k = 1 -> c.api = "clEnqueueWriteBuffer" /\ c.what = "X"
      [] k = 2 -> /\ c.api = "clEnqueueNDRangeKernel"
                  /\ c.what = "fft_init"
                  /\ c.args = <<"X", m_sample_power, "Y1">>
      [] k >= 3 /\ k <= m_sample_power + 2 ->
                  /\ c.api = "clEnqueueNDRangeKernel"
                  /\ c.what = "fft_step"
                  /\ c.args[2] = 2^(k - 3)
                  /\ c.args[2] < SampleCount
      [] OTHER -> c.api = "clEnqueueReadBuffer"

\* C7: one Fourier::fft issues one upload into X, one init dispatch from X
\* into Y1, exactly m step dispatches with B = 1, 2, ..., N/2 in this order,
\* then one download; the stage loop ends and no dispatch has B >= N.
C7_CallOrder ==
    (Operation = "fft")
        => /\ Len(DataCalls) <= m_sample_power + 3
           /\ \A k \in 1..Len(DataCalls) : FftCallMatches(DataCalls[k], k)
           /\ pc = "loop" /\ Len(Dispatches) = m_sample_power + 1 => ~LoopCond
           /\ pc \in {"store_wait", "finish", "par_done"}
                => Len(DataCalls) = m_sample_power + 3

C7_Witness ==
    /\ pc = "par_done"
    /\ Operation = "fft"
    /\ m_sample_power = MaxPower
    /\ Len(Dispatches) = MaxPower + 1
    /\ Dispatches[MaxPower + 1].args[2] = 2^(MaxPower - 1)

\* C8: in every step dispatch of Fourier::fft the source and the destination
\* are different buffers among Y1 and Y2, the source is the destination of
\* the dispatch before it, and the buffer downloaded is the destination of
\* the last dispatch: Y1 when log2(N) is even, Y2 when it is odd.
C8_PingPong ==
    (Operation = "fft")
        => /\ \A k \in 2..Len(Dispatches) :
                /\ Dispatches[k].what = "fft_step"
                /\ Dispatches[k].args[1] # Dispatches[k].args[3]
                /\ {Dispatches[k].args[1], Dispatches[k].args[3]} = {"Y1", "Y2"}
                /\ Dispatches[k].args[1] = Dispatches[k - 1].args[3]
           /\ \A k \in 1..Len(oplog) :
                IsRead(oplog[k])
                    => /\ Len(Dispatches) >= 1
                       /\ oplog[k].what = Dispatches[Len(Dispatches)].args[3]
                       /\ oplog[k].what = IF m_sample_power % 2 = 0 THEN "Y1" ELSE "Y2"

C8_Witness ==
    /\ pc = "par_done"
    /\ Operation = "fft"
    /\ m_sample_power = 2
    /\ Len(Dispatches) = 3
    /\ StoreMem = "Y1"

ReadExecuted == \E k \in 1..Len(executed) : executed[k].op = "read"
KernelPending == \E k \in 1..Len(cl_queue) : IsKernel(cl_queue[k])

\* C9 as claimed: where a result buffer is read back, the host has
\* synchronised with the queue (finish) after the last dispatch and before
\* the read.
C9_FinishBeforeRead ==
    \A r \in 1..Len(oplog) :
        IsRead(oplog[r])
            => \E f \in 1..(r - 1) :
                  /\ oplog[f].api = "clFinish"
                  /\ \A d \in 1..Len(oplog) : IsDispatch(oplog[d]) => d < f

\* C9 as amended: the result is read back by a blocking read on the in-order
\* queue: the read executes, and the host goes on, only when every dispatch
\* of the operation has executed; finish is called after the read, not before.
C9_BlockingRead ==
    /\ ReadExecuted
         => /\ ~KernelPending
            /\ Len(Kernels) = Len(Dispatches)
    /\ pc \in {"finish", "par_done"}
         => /\ ReadExecuted
            /\ cl_queue = << >>
    /\ \A f \in 1..Len(oplog) :
         oplog[f].api = "clFinish"
            => /\ f = Len(oplog)
               /\ \E r \in 1..(f - 1) : IsRead(oplog[r])
               /\ \A d \in 1..Len(oplog) : IsDispatch(oplog[d]) => d < f
    /\ pc = "par_done" => oplog[Len(oplog)].api = "clFinish"

C9_Witness ==
    /\ pc = "par_done"
    /\ Operation = "fft"
    /\ m_sample_power = MaxPower
    /\ ReadExecuted
    /\ Len(Kernels) = MaxPower + 1
    /\ spectrum.def

(***************************************************************************)
(* Properties of one butterfly stage (Spec).                               *)
(***************************************************************************)
StageRun == fn \in {"fft", "ifft"} /\ Len(stages) >= 1
StageT == stages[Len(stages)][1]
StageS == stages[Len(stages)][2]

\* Where the latest stage read or wrote element j.
StageReads(j) ==
    {k \in 1..Len(last_stage.accesses) :
        last_stage.accesses[k] = [kind |-> "read", index |-> j]}
StageWrites(j) ==
    {k \in 1..Len(last_stage.accesses) :
        last_stage.accesses[k] = [kind |-> "write", index |-> j]}

\* The other element of j's pair in a block of size S.
Partner(j, S) == IF j % S < S \div 2 THEN j + S \div 2 ELSE j - S \div 2

\* Every output of the stage computed from the array y as it was before the stage.
StageFromBefore(y, S) ==
    [j \in DOMAIN y |->
        LET p == j % S
            a == IF p < S \div 2 THEN y[j] ELSE y[Partner(j, S)]
            b == IF p < S \div 2 THEN y[Partner(j, S)] ELSE y[j]
        IN  IF fn = "fft" THEN CAdd(a, CMul(W(p, S), b))
            ELSE CMul(Half, CAdd(a, CMul(Q(p, S), b)))]

\* C11: in a stage with T*S = N and S even every index of [0, N) is read once
\* and written once, as a member of exactly one pair (t*S + p, t*S + p + S/2);
\* both elements of a pair are read before either is written, every access is
\* inside [0, N), and the in-place stage leaves the array that computing every
\* output from the array before the stage gives.
C11_StageInPlace ==
    StageRun
        => /\ StageT * StageS = N
           /\ StageS % 2 = 0
           /\ Len(last_stage.accesses) = 2 * N
           /\ \A k \in 1..Len(last_stage.accesses) :
                last_stage.accesses[k].index \in 0..(N - 1)
           /\ \A j \in 0..(N - 1) :
                /\ Cardinality(StageReads(j)) = 1
                /\ Cardinality(StageWrites(j)) = 1
                /\ Cardinality({tp \in (0..(StageT - 1)) \X (0..(StageS \div 2 - 1)) :
                                   j \in {tp[1] * StageS + tp[2],
                                          tp[1] * StageS + tp[2] + StageS \div 2}}) = 1
                /\ \A r \in StageReads(j) \cup StageReads(Partner(j, StageS)) :
                     \A w \in StageWrites(j) \cup StageWrites(Partner(j, StageS)) : r < w
           /\ DOMAIN result = DOMAIN last_stage.before
           /\ result = StageFromBefore(last_stage.before, StageS)

C11_Witness ==
    /\ pc = "fft_loop"
    /\ test_signal = Literal8
    /\ stages = <<(<<4, 2>>), (<<2, 4>>)>>
    /\ Len(last_stage.accesses) = 16
    /\ last_stage.accesses[5] = [kind |-> "read", index |-> 1]
    /\ result # last_stage.before

\* The twiddle of the latest stage at exponent k: W in fft, Q in ifft.
StageTwiddle(k) == IF fn = "fft" THEN W(k, StageS) ELSE Q(k, StageS)

\* The factor the stage applies to its outputs: none in fft, 0.5 in ifft.
StageScale(x) == IF fn = "fft" THEN x ELSE CMul(Half, x)

C12_NoLeftovers ==
    /\ \A k \in 1..Len(executed) : ~executed[k].stale
    /\ pc = "par_done"
         => /\ spectrum.def
            /\ spectrum.data = Expected

\* C14: every kernel dispatch of Fourier uses its buffers as they were
\* created: the buffer it reads was created with read access for kernels and
\* the buffer it writes with write access for kernels.
C14_AccessAsAllocated ==
    \A k \in 1..Len(Dispatches) :
        Dispatches[k].status = "CL_SUCCESS"
            => /\ MemFlags[Dispatches[k].args[1]] # "CL_MEM_WRITE_ONLY"
               /\ MemFlags[Dispatches[k].args[3]] # "CL_MEM_READ_ONLY"

====
